---------------------------- MODULE Spec2Model ----------------------------
(***************************************************************************)
(* A model of the projection engine of sierradb-inspector:                 *)
(*   server/src/projectionEngine.ts  (ProjectionEngine, parallel variant   *)
(*       at lines 203-1088 and sequential variant at lines 1090-1464)      *)
(*   debugSessionManager (src/unnamed/part_000, DebugSessionManager)       *)
(*                                                                         *)
(* JavaScript runs one continuation at a time: an action of this model is  *)
(* the code that runs from the resumption after one `await` up to the next *)
(* `await` (or to the end of the function).                                *)
(***************************************************************************)
EXTENDS Integers, Sequences, FiniteSets, TLC

(***************************************************************************)
(* Bounds of the model.  The engine's own sizes (1000 events per scan, 200 *)
(* events per sandbox batch, 6 partitions per group) are scaled down so    *)
(* that every case they separate (several scans per partition, several     *)
(* sandbox batches per scan, a last batch of one event, several groups)    *)
(* occurs with a handful of events.                                        *)
(***************************************************************************)
\* Partitions of the store, events of one partition, events of the store.
MaxPartitions == 3
MaxEvents == 4
MaxTotalEvents == 5
\* Events of the store on which the script throws or returns undefined.
MaxFaulty == 1
\* dbBatchSize / batchSize of the processors (1000 in the source).
DbBatchSize == 3
\* this.batchSize (200 in the source).
BatchSize == 2
\* this.maxConcurrentPartitions (6 in the source).
MaxConcurrentPartitions == 2
\* stepSession calls on a debug session between two resets.
MaxStepCalls == MaxTotalEvents + 1

(***************************************************************************)
(* JSON values.  Every value is a record [t, v] so that values of          *)
(* different shapes can be compared.  "undef" is JavaScript's undefined,   *)
(* which exists inside the sandbox and in the host but not in JSON text.   *)
(***************************************************************************)
Null == [t |-> "null", v |-> 0]
Undef == [t |-> "undef", v |-> 0]
Num(n) == [t |-> "num", v |-> n]
Str(s) == [t |-> "str", v |-> s]
Bool(b) == [t |-> "bool", v |-> b]
List(s) == [t |-> "list", v |-> s]
Map(f) == [t |-> "map", v |-> f]

\* JavaScript truthiness: `!x` is true for null, undefined, 0, "" and false.
Falsy(x) ==
    \/ x.t \in {"null", "undef"}
    \/ (x.t = "num" /\ x.v = 0)
    \/ (x.t = "str" /\ x.v = "")
    \/ (x.t = "bool" /\ x.v = FALSE)

\* `obj?.key`: undefined unless obj is a map that has the key.
Get(obj, key) ==
    IF obj.t = "map" /\ key \in DOMAIN obj.v THEN obj.v[key] ELSE Undef

(***************************************************************************)
(* JSON.stringify / JSON.parse.  The text of a value is modelled as the    *)
(* value it denotes, wrapped; stringify loses undefined: a top-level       *)
(* undefined gives no string at all, an undefined list element becomes     *)
(* null and a map key whose value is undefined is dropped.                 *)
(***************************************************************************)
NoString == [t |-> "nostring", v |-> 0]

RECURSIVE JsonNormal(_)
JsonNormal(x) ==
    CASE x.t = "list" ->
           List([i \in 1..Len(x.v) |->
                   IF x.v[i].t = "undef" THEN Null ELSE JsonNormal(x.v[i])])
      [] x.t = "map" ->
           Map([k \in {j \in DOMAIN x.v : x.v[j].t # "undef"} |-> JsonNormal(x.v[k])])
      [] OTHER -> x

JSONstringify(x) ==
    IF x.t = "undef" THEN NoString ELSE [t |-> "json", v |-> JsonNormal(x)]

JSONparse(s) == s.v


(***************************************************************************)
(* Events.  store[p + 1] lists the events of partition p in sequence       *)
(* order, each by its event_name; partition_sequence (and stream_version)  *)
(* is the 0-based position.  The stream a stream-mode run reads is the     *)
(* stream that holds the events of partition 0.                            *)
(***************************************************************************)
EventNames == {"Added", "Corrupt", "Noise"}

\* event_id: distinct over all partitions.
IdStride == MaxEvents + 2

EventAt(st, p, s) ==
    [event_id |-> p * IdStride + s, partition_sequence |-> s,
     event_name |-> st[p + 1][s + 1]]

\* processEventForProjection copies the fields a script may read into a new
\* object; the fields the model's scripts read are copied unchanged.
processEventForProjection(event) ==
    [event_id |-> event.event_id,
     partition_sequence |-> event.partition_sequence,
     event_name |-> event.event_name]

(***************************************************************************)
(* The user scripts of the model.  Each has the form                       *)
(*   function project(state, event) {                                      *)
(*     if (event.event_name === 'Noise') return;                           *)
(*     if (event.event_name === 'Corrupt') throw new Error('corrupt');     *)
(*     return <body>;                                                      *)
(*   }                                                                     *)
(* with <body> one of                                                      *)
(*   count:  {count: (state?.count || 0) + 1}                              *)
(*   items:  {items: [...(state?.items || []), event.event_id]}            *)
(*   num:    (state || 0) + 1                                              *)
(* "noproject" is a script that defines no function named project.         *)
(* Two more scripts differ from "count":                                   *)
(*   chatty:  starts with console.log(event.event_id) and throws the       *)
(*            string 'corrupt', a value without a message, not an Error    *)
(*   private: returns {count: ..., _seen: [...(state?._seen || []), id],   *)
(*            rows: [...(state?.rows || []), {id: id, _tmp: 1}],           *)
(*            meta: {last: id, _tmp: 1}}, with id = event.event_id         *)
(***************************************************************************)
ValidScripts == {"count", "items", "num", "chatty", "private"}
Scripts == ValidScripts \cup {"noproject"}

DefinesProject(script) == script \in ValidScripts

OrElse(x, d) == IF Falsy(x) THEN d ELSE x

ProjectBody(script, state, event) ==
    CASE script \in {"count", "chatty"} ->
           Map("count" :> Num(OrElse(Get(state, "count"), Num(0)).v + 1))
      [] script = "private" ->
           Map(("count" :> Num(OrElse(Get(state, "count"), Num(0)).v + 1))
               @@ ("_seen" :> List(Append(OrElse(Get(state, "_seen"), List(<<>>)).v,
                                          Num(event.event_id))))
               @@ ("rows" :> List(Append(OrElse(Get(state, "rows"), List(<<>>)).v,
                                         Map(("id" :> Num(event.event_id))
                                             @@ ("_tmp" :> Num(1))))))
               @@ ("meta" :> Map(("last" :> Num(event.event_id))
                                 @@ ("_tmp" :> Num(1)))))
      [] script = "items" ->
           Map("items" :> List(Append(OrElse(Get(state, "items"), List(<<>>)).v,
                                      Num(event.event_id))))
      [] script = "num" ->
           Num(OrElse(state, Num(0)).v + 1)

\* error.message of what the script throws.
ThrownMessage(script) == IF script = "chatty" THEN Undef ELSE Str("corrupt")

\* What the script writes with console.log in one call.
ConsoleLines(script, event) ==
    IF script = "chatty" THEN <<Num(event.event_id)>> ELSE <<>>

\* The outcome of project(state, event): a thrown exception or a value.
project(script, state, event) ==
    CASE event.event_name = "Noise" -> [threw |-> FALSE, val |-> Undef]
      [] event.event_name = "Corrupt" ->
           [threw |-> TRUE, val |-> Undef, message |-> ThrownMessage(script)]
      [] OTHER -> [threw |-> FALSE, val |-> ProjectBody(script, state, event)]

\* global.projectFunction of the parallel variant: project wrapped in a
\* try/catch that returns the unchanged state.
projectFunction(script, state, event) ==
    LET r == project(script, state, event)
    IN  IF r.threw THEN [threw |-> FALSE, val |-> state] ELSE r

\* global.projectBatch: a plain loop over project, no try/catch: an exception
\* leaves the loop, and an undefined result is the next event's state.
RECURSIVE projectBatch(_, _, _)
projectBatch(script, state, events) ==
    IF events = <<>> THEN [threw |-> FALSE, val |-> state]
    ELSE LET r == project(script, state, Head(events))
         IN  IF r.threw THEN r ELSE projectBatch(script, r.val, Tail(events))

(***************************************************************************)
(* The host side of one sandbox invocation.                                *)
(***************************************************************************)
\* What the host does with the outcome of executionScript.run: a rejection
\* and a result that is no string both give back the state passed in.
HostResult(state, outcome) ==
    IF outcome.threw THEN state
    ELSE LET resultString == JSONstringify(outcome.val)
         IN  IF resultString = NoString THEN state ELSE JSONparse(resultString)

\* ProjectionEngine.executeProjectionFunction (parallel variant: the script
\* that runs is global.projectFunction).
executeProjectionFunction(script, state, event) ==
    HostResult(state,
               projectFunction(script, JSONparse(JSONstringify(state)),
                               processEventForProjection(event)))

\* ProjectionEngine.executeProjectionFunction of the sequential variant:
\* global.projectFunction is project itself, the host catches the rejection.
executeProjectionFunctionSeq(script, state, event) ==
    HostResult(state,
               project(script, JSONparse(JSONstringify(state)),
                       processEventForProjection(event)))

\* ProjectionEngine.executeBatchProjectionFunction.
executeBatchProjectionFunction(script, state, events) ==
    HostResult(state,
               projectBatch(script, JSONparse(JSONstringify(state)),
                            [i \in 1..Len(events) |-> processEventForProjection(events[i])]))

(***************************************************************************)
(* State merge.                                                            *)
(***************************************************************************)
isPlainObject(x) == x.t = "map"

\* deepClone copies lists and maps element by element: the same value.
RECURSIVE deepClone(_)
deepClone(x) ==
    CASE x.t = "list" -> List([i \in 1..Len(x.v) |-> deepClone(x.v[i])])
      [] x.t = "map" -> Map([k \in DOMAIN x.v |-> deepClone(x.v[k])])
      [] OTHER -> x

RECURSIVE accumulateState(_, _)

MutAccumulateLastWins(baseState, newState) ==
    IF Falsy(newState) THEN baseState ELSE newState

MutAccumulateNewFirst(baseState, newState) ==
    IF Falsy(baseState) THEN newState
    ELSE IF Falsy(newState) THEN baseState
    ELSE IF baseState.t = "list" /\ newState.t = "list"
         THEN List(newState.v \o baseState.v)
    ELSE IF newState.t = "list" THEN newState
    ELSE IF baseState.t = "list" THEN baseState
    ELSE IF newState.t # "map" THEN newState
    ELSE IF baseState.t # "map" THEN newState
    ELSE Map([key \in DOMAIN baseState.v \cup DOMAIN newState.v |->
                IF key \notin DOMAIN newState.v THEN baseState.v[key]
                ELSE IF key \notin DOMAIN baseState.v THEN deepClone(newState.v[key])
                ELSE LET baseValue == baseState.v[key]
                         value == newState.v[key]
                     IN  IF baseValue.t = "num" /\ value.t = "num"
                              THEN Num(baseValue.v + value.v)
                         ELSE IF baseValue.t = "list" /\ value.t = "list"
                              THEN List(value.v \o baseValue.v)
                         ELSE IF isPlainObject(baseValue) /\ isPlainObject(value)
                              THEN accumulateState(baseValue, value)
                         ELSE value])

MutAccumulateListKeyWins(baseState, newState) ==
    IF Falsy(baseState) THEN newState
    ELSE IF Falsy(newState) THEN baseState
    ELSE IF baseState.t = "list" /\ newState.t = "list"
         THEN List(baseState.v \o newState.v)
    ELSE IF newState.t = "list" THEN newState
    ELSE IF baseState.t = "list" THEN baseState
    ELSE IF newState.t # "map" THEN newState
    ELSE IF baseState.t # "map" THEN newState
    ELSE Map([key \in DOMAIN baseState.v \cup DOMAIN newState.v |->
                IF key \notin DOMAIN newState.v THEN baseState.v[key]
                ELSE IF key \notin DOMAIN baseState.v THEN deepClone(newState.v[key])
                ELSE LET baseValue == baseState.v[key]
                         value == newState.v[key]
                     IN  IF baseValue.t = "num" /\ value.t = "num"
                              THEN Num(baseValue.v + value.v)
                         ELSE IF baseValue.t = "list" /\ value.t = "list"
                              THEN List(baseValue.v \o value.v)
                         ELSE IF value.t = "list" THEN value
                         ELSE IF baseValue.t = "list" THEN baseValue
                         ELSE IF isPlainObject(baseValue) /\ isPlainObject(value)
                              THEN accumulateState(baseValue, value)
                         ELSE value])

MutAccumulateDropsNewKeys(baseState, newState) ==
    IF Falsy(baseState) THEN newState
    ELSE IF Falsy(newState) THEN baseState
    ELSE IF baseState.t = "list" /\ newState.t = "list"
         THEN List(baseState.v \o newState.v)
    ELSE IF newState.t = "list" THEN newState
    ELSE IF baseState.t = "list" THEN baseState
    ELSE IF newState.t # "map" THEN newState
    ELSE IF baseState.t # "map" THEN newState
    ELSE Map([key \in DOMAIN baseState.v |->
                IF key \notin DOMAIN newState.v THEN baseState.v[key]
                ELSE LET baseValue == baseState.v[key]
                         value == newState.v[key]
                     IN  IF baseValue.t = "num" /\ value.t = "num"
                              THEN Num(baseValue.v + value.v)
                         ELSE IF baseValue.t = "list" /\ value.t = "list"
                              THEN List(baseValue.v \o value.v)
                         ELSE IF isPlainObject(baseValue) /\ isPlainObject(value)
                              THEN accumulateState(baseValue, value)
                         ELSE value])

accumulateState(baseState, newState) ==
    IF Falsy(baseState) THEN newState
    ELSE IF Falsy(newState) THEN baseState
    ELSE IF baseState.t = "list" /\ newState.t = "list"
         THEN List(baseState.v \o newState.v)
    ELSE IF newState.t = "list" THEN newState
    ELSE IF baseState.t = "list" THEN baseState
    ELSE IF newState.t # "map" THEN newState
    ELSE IF baseState.t # "map" THEN newState
    ELSE Map([key \in DOMAIN baseState.v \cup DOMAIN newState.v |->
                IF key \notin DOMAIN newState.v THEN baseState.v[key]
                ELSE IF key \notin DOMAIN baseState.v THEN deepClone(newState.v[key])
                ELSE LET baseValue == baseState.v[key]
                         value == newState.v[key]
                     IN  IF baseValue.t = "num" /\ value.t = "num"
                              THEN Num(baseValue.v + value.v)
                         ELSE IF baseValue.t = "list" /\ value.t = "list"
                              THEN List(baseValue.v \o value.v)
                         ELSE IF isPlainObject(baseValue) /\ isPlainObject(value)
                              THEN accumulateState(baseValue, value)
                         ELSE value])

\* key.startsWith('_'), over the keys the model's states use.
StartsWithUnderscore(key) == key \in {"_seen", "_tmp"}

RECURSIVE filterStateForClient(_)

MutFilterSkipsLists(state) ==
    CASE state.t = "map" ->
           Map([key \in {k \in DOMAIN state.v : ~StartsWithUnderscore(k)} |->
                  IF state.v[key].t = "map"
                  THEN filterStateForClient(state.v[key])
                  ELSE state.v[key]])
      [] OTHER -> state

filterStateForClient(state) ==
    CASE state.t = "list" ->
           List([i \in 1..Len(state.v) |-> filterStateForClient(state.v[i])])
      [] state.t = "map" ->
           Map([key \in {k \in DOMAIN state.v : ~StartsWithUnderscore(k)} |->
                  IF state.v[key].t \in {"list", "map"}
                  THEN filterStateForClient(state.v[key])
                  ELSE state.v[key]])
      [] OTHER -> state


(***************************************************************************)
(* The state of the model.                                                 *)
(***************************************************************************)
VARIABLES
    store,            \* the event store: store[p + 1] = event names of partition p
    ctxProject,       \* what `project` is bound to in the engine's cached context
    abortController,  \* this.abortController: the run that set it, and its signal
    run,              \* run[r]: the locals of the r-th runProjection call
    proc,             \* proc[r][p]: the locals of run r's processor of partition p
    snap,             \* snap[r]: what run r had scheduled when abort() was called
    session,          \* the debug session of DebugSessionManager.sessions
    stepCalls,        \* stepSession calls on the session since it was created or reset
    lastCall,         \* the last call of a DebugSessionManager method and what it returned
    clock,            \* Date.now() in minutes, and the time of the last sweep
    mergeCall         \* arguments and results of accumulateState called on its own

engineVars == <<store, ctxProject, abortController, run, proc, snap>>
debugVars == <<session, stepCalls, lastCall, clock>>
mergeVars == <<mergeCall>>
vars == <<store, ctxProject, abortController, run, proc, snap, session, stepCalls,
          lastCall, clock, mergeCall>>

Runs == 1..2
Slots == 0..(MaxPartitions - 1)
Modes == {"parallel", "stream", "sequential"}

Min(a, b) == IF a < b THEN a ELSE b

\* The inputs of a run: the script and the initial state.
RunInputs ==
    { [script |-> "count", initialState |-> Null],
      [script |-> "items", initialState |-> Null],
      [script |-> "num", initialState |-> Num(1)],
      [script |-> "noproject", initialState |-> Null] }

IdleProc ==
    [pc |-> "idle", state |-> Null, eventsProcessed |-> 0, startSequence |-> 0,
     hasMore |-> TRUE, lo |-> 0, n |-> 0, i |-> 0, currentVersion |-> 0,
     seed |-> Null, started |-> 0, scans |-> 0, fetchFailed |-> FALSE]

IdleRun ==
    [pc |-> "idle", script |-> "noproject", mode |-> "parallel",
     initialState |-> Null, fn |-> "none", currentState |-> Null,
     eventsProcessed |-> 0, totalPartitions |-> 0, startPartition |-> 0,
     partition |-> 0, settled |-> <<>>, contexts |-> 0, cb |-> <<>>,
     abortIssued |-> FALSE, closed |-> "open"]

NoSnap == [taken |-> FALSE, started |-> [p \in Slots |-> 0], scans |-> [p \in Slots |-> 0]]

\* The sequential variant hands the state to the callback as it is; the
\* parallel variant filters it first.
ClientState(rn, state) ==
    IF rn.mode = "sequential" THEN state ELSE filterStateForClient(state)

\* A ProjectionProgress payload; error is the message, "" when there is none.
Progress(status, cp, tp, ep, state, error) ==
    [status |-> status, current_partition |-> cp, total_partitions |-> tp,
     events_processed |-> ep, current_state |-> state, error |-> error]

NoProjectMessage == "No project function defined"
HelloMessage == "hello failed"
ContextMessage == "createContext failed"

\* "Send final completion progress": the last statement of the try block.
Completed(rn) ==
    LET tp == IF rn.mode = "stream" THEN rn.eventsProcessed ELSE rn.totalPartitions
    IN  [rn EXCEPT !.pc = "done",
                   !.cb = Append(@, Progress("completed", tp, tp, rn.eventsProcessed,
                                             ClientState(rn, rn.currentState), ""))]

NoSession == [status |-> "none"]
NoCall ==
    [op |-> "none", found |-> "none", result |-> Null,
     prev |-> [op |-> "none", found |-> "none"]]
NotMerged == [pc |-> "none"]

\* The catch block of runProjection.
Failed(rn, message) ==
    [rn EXCEPT !.pc = "done",
               !.cb = Append(@, Progress("error", 0, 0, rn.eventsProcessed,
                                         ClientState(rn, rn.currentState), message))]

(***************************************************************************)
(* The processors.  A processor is "scanning" while its scan is awaited    *)
(* and "executing" while a sandbox invocation is awaited: of the event at  *)
(* offset i of the fetched events (processPartition, processStream) or of  *)
(* the processing batch that starts there (processPartitionOptimized).     *)
(***************************************************************************)
Aborted == abortController.aborted

\* `while (hasMore && !this.abortController?.signal.aborted)`, then the scan.
LoopCheck(pr, ab) ==
    IF pr.hasMore /\ ~ab
    THEN [pr EXCEPT !.pc = "scanning", !.scans = @ + 1]
    ELSE [pr EXCEPT !.pc = "done"]

MutAfterBatchRescansLast(pr, ab) ==
    LoopCheck([pr EXCEPT !.startSequence =
                   IF pr.hasMore /\ pr.n > 0 THEN pr.lo + pr.n - 1 ELSE @], ab)

\* After the for loop: "Update start sequence for next batch", then the loop.
AfterBatch(pr, ab) ==
    LoopCheck([pr EXCEPT !.startSequence =
                   IF pr.hasMore /\ pr.n > 0 THEN pr.lo + pr.n ELSE @], ab)

BatchLen(pr) == Min(BatchSize, pr.n - pr.i)

MutNextEventIgnoresAbort(pr, ab) ==
    IF pr.i < pr.n
    THEN [pr EXCEPT !.pc = "executing", !.started = @ + 1]
    ELSE AfterBatch(pr, ab)

\* processPartition / processStream: the head of `for (const event of
\* result.events)`: the abort check, then the sandbox invocation.
NextEvent(pr, ab) ==
    IF pr.i < pr.n /\ ~ab
    THEN [pr EXCEPT !.pc = "executing", !.started = @ + 1]
    ELSE AfterBatch(pr, ab)

\* processPartitionOptimized: the head of `for (const batch of
\* processingBatches)`.
NextBatch(pr, ab) ==
    IF pr.i < pr.n /\ ~ab
    THEN [pr EXCEPT !.pc = "executing", !.started = @ + BatchLen(pr)]
    ELSE AfterBatch(pr, ab)

\* scanPartition / scanStream: the events from `start` on, at most count.
ScanCount(st, p, start) ==
    LET left == Len(st[p + 1]) - start
    IN  IF left < 0 THEN 0 ELSE Min(DbBatchSize, left)

ScanHasMore(st, p, start) == start + ScanCount(st, p, start) < Len(st[p + 1])

\* The events of the fetched result from offset i, k of them.
BatchEvents(st, p, pr, k) ==
    [j \in 1..k |-> EventAt(st, p, pr.lo + pr.i + j - 1)]

\* A processor is started: its locals are initialised and it runs up to
\* its first scan.
StartProc(initialState, ab) ==
    LoopCheck([IdleProc EXCEPT !.state = initialState, !.seed = initialState], ab)

\* The scan of processor pr of partition p returned.
ScanOk(st, p, pr, ab, optimized) ==
    LET n == ScanCount(st, p, pr.startSequence)
        got == [pr EXCEPT !.hasMore = ScanHasMore(st, p, pr.startSequence),
                          !.lo = pr.startSequence, !.n = n, !.i = 0]
    IN  IF n = 0 THEN [got EXCEPT !.pc = "done"]
        ELSE IF optimized THEN NextBatch(got, ab) ELSE NextEvent(got, ab)

MutScanFailedDropsState(pr) ==
    [pr EXCEPT !.pc = "done", !.fetchFailed = TRUE, !.state = pr.seed]

MutScanFailedNeverSettles(pr) == [pr EXCEPT !.pc = "idle", !.fetchFailed = TRUE]

\* The scan threw: "Error scanning partition", break.
ScanFailed(pr) == [pr EXCEPT !.pc = "done", !.fetchFailed = TRUE]

\* this.executeProjectionFunction, of the variant the run's mode belongs to.
Execute(mode, fn, state, event) ==
    IF mode = "sequential"
    THEN executeProjectionFunctionSeq(fn, state, event)
    ELSE executeProjectionFunction(fn, state, event)

\* global.projectFunction of the context the processors of run rn invoke:
\* a stream run uses the engine's cached context, where the script of the
\* latest runProjection call is bound; the other runs use contexts in which
\* only their own script ran.
BoundFunction(rn) == IF rn.mode = "stream" THEN ctxProject ELSE rn.fn

\* The sandbox invocation of a per-event processor returned.
EventDone(st, p, pr, rn, ab) ==
    LET event == EventAt(st, p, pr.lo + pr.i)
        newState == Execute(rn.mode, BoundFunction(rn), pr.state, event)
    IN  NextEvent([pr EXCEPT !.state = newState, !.i = @ + 1,
                             !.currentVersion = event.partition_sequence], ab)

\* The sandbox invocation of a processing batch returned.
BatchDone(st, p, pr, rn, ab) ==
    LET k == BatchLen(pr)
        batch == BatchEvents(st, p, pr, k)
        newState == IF k = 1
                    THEN executeProjectionFunction(rn.fn, pr.state, batch[1])
                    ELSE executeBatchProjectionFunction(rn.fn, pr.state, batch)
    IN  NextBatch([pr EXCEPT !.state = newState, !.i = @ + k,
                             !.eventsProcessed = @ + k], ab)


(***************************************************************************)
(* runProjection.                                                          *)
(***************************************************************************)
EndPartition(rn) ==
    Min(rn.startPartition + MaxConcurrentPartitions, rn.totalPartitions)

Group(rn) == rn.startPartition..(EndPartition(rn) - 1)

MutGroupLoopSilentAbort(rn, ab) ==
    IF rn.startPartition < rn.totalPartitions
    THEN IF ab THEN [rn EXCEPT !.pc = "done"]
         ELSE [rn EXCEPT !.pc = "starting", !.partition = rn.startPartition,
                         !.settled = <<>>]
    ELSE Completed(rn)

\* The head of `for (let startPartition = 0; ...)` of the parallel variant:
\* the bound, the abort check, then the first createContext of the group.
GroupLoop(rn, ab) ==
    IF rn.startPartition < rn.totalPartitions /\ ~ab
    THEN [rn EXCEPT !.pc = "starting", !.partition = rn.startPartition,
                    !.settled = <<>>]
    ELSE Completed(rn)

\* "Merge results sequentially": for (const result of results), from
\* partition p on.
RECURSIVE MergeResults(_, _, _, _)
MergeResults(rn, procs, p, end) ==
    IF p >= end THEN rn
    ELSE LET merged == accumulateState(rn.currentState, procs[p].state)
             ep == rn.eventsProcessed + procs[p].eventsProcessed
         IN  MergeResults(
                 [rn EXCEPT !.currentState = merged,
                            !.eventsProcessed = ep,
                            !.cb = Append(@, Progress("running", p, rn.totalPartitions, ep,
                                                      ClientState(rn, merged), ""))],
                 procs, p + 1, end)

\* Promise.all resolved: the merge loop, then the next group or the end.
Join(rn, procs, ab) ==
    LET merged == MergeResults(rn, procs, rn.startPartition, EndPartition(rn))
    IN  GroupLoop([merged EXCEPT !.startPartition = @ + MaxConcurrentPartitions], ab)

MutGroupDoneFirst(rn, procs) ==
    rn.pc = "joining" /\ procs[rn.startPartition].pc = "done"

GroupDone(rn, procs) ==
    rn.pc = "joining" /\ \A p \in Group(rn) : procs[p].pc = "done"

\* The onBatchProgress closure that runProjection hands to processStream
\* and (sequential variant) to processPartition.
OnBatchProgress(rn, pr) ==
    LET ep == rn.eventsProcessed + pr.n
        cp == IF rn.mode = "stream" THEN pr.currentVersion ELSE rn.partition
        tp == IF rn.mode = "stream" THEN pr.currentVersion ELSE rn.totalPartitions
    IN  [rn EXCEPT !.eventsProcessed = ep,
                   !.cb = Append(@, Progress("running", cp, tp, ep,
                                             ClientState(rn, pr.state), ""))]

\* The head of `for (let partition = 0; ...)` of the sequential variant.
SeqLoop(rn, procs, ab) ==
    IF rn.partition < rn.totalPartitions /\ ~ab
    THEN [run |-> [rn EXCEPT !.pc = "seq"],
          procs |-> [procs EXCEPT ![rn.partition] = StartProc(rn.currentState, ab)]]
    ELSE [run |-> Completed(rn), procs |-> procs]

\* What runProjection does once the processor of partition p has run up to
\* its next await or to its end; `emitted`: the processor called
\* onBatchProgress on its way.
AfterStep(rn, procs, p, emitted, ab) ==
    LET pr == procs[p]
        rn1 == IF emitted THEN OnBatchProgress(rn, pr) ELSE rn
        rn2 == IF pr.pc = "done" THEN [rn EXCEPT !.settled = Append(@, p)] ELSE rn
    IN  CASE rn.pc = "done" -> [run |-> rn, procs |-> procs]
          [] rn.pc # "done" /\ rn.mode = "parallel" ->
               [run |-> IF GroupDone(rn2, procs) THEN Join(rn2, procs, ab) ELSE rn2,
                procs |-> procs]
          [] rn.pc # "done" /\ rn.mode = "stream" ->
               [run |-> IF pr.pc = "done"
                        THEN Completed([rn1 EXCEPT !.currentState = pr.state])
                        ELSE rn1,
                procs |-> procs]
          [] rn.pc # "done" /\ rn.mode = "sequential" ->
               IF pr.pc = "done"
               THEN SeqLoop([rn1 EXCEPT !.currentState = pr.state, !.partition = @ + 1],
                            procs, ab)
               ELSE [run |-> rn1, procs |-> procs]

\* runProjection is called: the abort controller is replaced, the locals are
\* initialised, and the call waits for its sandbox context.
StartRunWith(r, input, mode) ==
    /\ run' = [run EXCEPT ![r] =
                  [IdleRun EXCEPT !.pc = "compiling", !.script = input.script,
                                  !.mode = mode,
                                  !.initialState = input.initialState,
                                  !.currentState = input.initialState]]
    /\ abortController' = [owner |-> r, aborted |-> FALSE]
    /\ proc' = [proc EXCEPT ![r] = [p \in Slots |-> IdleProc]]
    /\ snap' = [snap EXCEPT ![r] = NoSnap]
    /\ UNCHANGED <<store, ctxProject>>
    /\ UNCHANGED <<debugVars, mergeVars>>

\* A client starts a run when no run of the engine is in progress.
StartRun(r) ==
    /\ run[r].pc \in {"idle", "done"}
    /\ \E input \in RunInputs, mode \in Modes : StartRunWith(r, input, mode)

\* Whether `typeof project === 'function'` holds when the wrapped script
\* runs.  The parallel variant runs it in the engine's cached context, where
\* a function declared by the script of an earlier run is still bound; the
\* sequential variant runs it in a context of its own.
ProjectBound(rn) ==
    IF DefinesProject(rn.script) THEN rn.script
    ELSE IF rn.mode = "sequential" THEN "none"
    ELSE ctxProject

\* `await script.run(context)` returned or threw; then the execution scripts
\* are compiled and the branch on streamId is taken.
Compile(r) ==
    LET rn == run[r]
        bound == ProjectBound(rn)
        ok == [rn EXCEPT !.fn = bound]
        first == StartProc(rn.initialState, Aborted)
    IN  /\ rn.pc = "compiling"
        /\ ctxProject' = IF rn.mode # "sequential" /\ bound # "none" THEN bound
                         ELSE ctxProject
        /\ IF bound = "none"
           THEN run' = [run EXCEPT ![r] = Failed(rn, NoProjectMessage)] /\ UNCHANGED proc
           ELSE IF rn.mode = "stream"
           THEN /\ proc' = [proc EXCEPT ![r][0] = first]
                /\ run' = [run EXCEPT ![r] =
                              IF first.pc = "done" THEN Completed(ok)
                              ELSE [ok EXCEPT !.pc = "stream"]]
           ELSE run' = [run EXCEPT ![r] = [ok EXCEPT !.pc = "hello"]] /\ UNCHANGED proc
        /\ UNCHANGED <<store, abortController, snap>>
        /\ UNCHANGED <<debugVars, mergeVars>>

\* `await this.sierraDB.hello()` returned the partition count.
Hello(r) ==
    LET rn == [run[r] EXCEPT !.totalPartitions = Len(store)]
        next == SeqLoop(rn, proc[r], Aborted)
    IN  /\ run[r].pc = "hello"
        /\ IF rn.mode = "parallel"
           THEN run' = [run EXCEPT ![r] = GroupLoop(rn, Aborted)] /\ UNCHANGED proc
           ELSE run' = [run EXCEPT ![r] = next.run] /\ proc' = [proc EXCEPT ![r] = next.procs]
        /\ UNCHANGED <<store, ctxProject, abortController, snap>>
        /\ UNCHANGED <<debugVars, mergeVars>>

\* `await this.sierraDB.hello()` threw.
HelloFails(r) ==
    /\ run[r].pc = "hello"
    /\ run' = [run EXCEPT ![r] = Failed(@, HelloMessage)]
    /\ UNCHANGED <<store, ctxProject, abortController, proc, snap>>
    /\ UNCHANGED <<debugVars, mergeVars>>

MutStartPartitionSharesState(r) ==
    LET rn == run[r]
        p == rn.partition
        procs == [proc[r] EXCEPT ![p] = StartProc(rn.currentState, Aborted)]
        rn1 == [rn EXCEPT !.partition = p + 1, !.contexts = @ + 1,
                          !.pc = IF p + 1 = EndPartition(rn) THEN "joining" ELSE "starting"]
    IN  /\ rn.pc = "starting"
        /\ DefinesProject(rn.script)
        /\ proc' = [proc EXCEPT ![r] = procs]
        /\ run' = [run EXCEPT ![r] = AfterStep(rn1, procs, p, FALSE, Aborted).run]
        /\ UNCHANGED <<store, ctxProject, abortController, snap>>
        /\ UNCHANGED <<debugVars, mergeVars>>

\* The context of the next partition of the group is ready
\* (isolate.createContext, jail.set, script.run(partitionContext)) and
\* processPartitionOptimized is called; after the last partition of the
\* group, Promise.all is awaited.
StartPartition(r) ==
    LET rn == run[r]
        p == rn.partition
        procs == [proc[r] EXCEPT ![p] = StartProc(Null, Aborted)]
        rn1 == [rn EXCEPT !.partition = p + 1, !.contexts = @ + 1,
                          !.pc = IF p + 1 = EndPartition(rn) THEN "joining" ELSE "starting"]
    IN  /\ rn.pc = "starting"
        /\ DefinesProject(rn.script)
        /\ proc' = [proc EXCEPT ![r] = procs]
        /\ run' = [run EXCEPT ![r] = AfterStep(rn1, procs, p, FALSE, Aborted).run]
        /\ UNCHANGED <<store, ctxProject, abortController, snap>>
        /\ UNCHANGED <<debugVars, mergeVars>>

\* Preparing the context of the next partition threw: createContext failed,
\* or script.run(partitionContext) found no project function in the fresh
\* context.
StartPartitionFails(r) ==
    /\ run[r].pc = "starting"
    /\ run' = [run EXCEPT ![r] =
                  IF DefinesProject(@.script) THEN Failed(@, ContextMessage)
                  ELSE Failed([@ EXCEPT !.contexts = @ + 1], NoProjectMessage)]
    /\ UNCHANGED <<store, ctxProject, abortController, proc, snap>>
    /\ UNCHANGED <<debugVars, mergeVars>>

Optimized(rn) == rn.mode = "parallel"

\* The partition (of the store) that processor p of run rn reads: a
\* stream-mode run reads the stream of partition 0.
\* `await this.sierraDB.scanPartition(...)` (scanStream) returned.  pr is
\* the processor at its next await or at its end, after.run and after.procs
\* the run and its processors once runProjection has reacted to that.
ScanReturns(r, p) ==
    /\ proc[r][p].pc = "scanning"
    /\ \E pr \in {ScanOk(store, p, proc[r][p], Aborted, Optimized(run[r]))} :
       \E after \in {AfterStep(run[r], [proc[r] EXCEPT ![p] = pr], p,
                               ~Optimized(run[r]) /\ pr.n > 0 /\ pr.pc # "executing",
                               Aborted)} :
         /\ run' = [run EXCEPT ![r] = after.run]
         /\ proc' = [proc EXCEPT ![r] = after.procs]
    /\ UNCHANGED <<store, ctxProject, abortController, snap>>
    /\ UNCHANGED <<debugVars, mergeVars>>

\* `await this.sierraDB.scanPartition(...)` (scanStream) threw.
ScanFails(r, p) ==
    LET rn == run[r]
        procs == [proc[r] EXCEPT ![p] = ScanFailed(proc[r][p])]
        after == AfterStep(rn, procs, p, FALSE, Aborted)
    IN  /\ proc[r][p].pc = "scanning"
        /\ run' = [run EXCEPT ![r] = after.run]
        /\ proc' = [proc EXCEPT ![r] = after.procs]
        /\ UNCHANGED <<store, ctxProject, abortController, snap>>
        /\ UNCHANGED <<debugVars, mergeVars>>

\* The awaited sandbox invocation returned.
ExecReturns(r, p) ==
    /\ proc[r][p].pc = "executing"
    /\ \E pr \in {IF Optimized(run[r])
                   THEN BatchDone(store, p, proc[r][p], run[r], Aborted)
                   ELSE EventDone(store, p, proc[r][p], run[r], Aborted)} :
       \E after \in {AfterStep(run[r], [proc[r] EXCEPT ![p] = pr], p,
                               ~Optimized(run[r]) /\ pr.pc # "executing", Aborted)} :
         /\ run' = [run EXCEPT ![r] = after.run]
         /\ proc' = [proc EXCEPT ![r] = after.procs]
    /\ UNCHANGED <<store, ctxProject, abortController, snap>>
    /\ UNCHANGED <<debugVars, mergeVars>>

\* ProjectionEngine.abort(), called for run r while r is in progress.
Abort(r) ==
    /\ run[r].pc \notin {"idle", "done"}
    /\ ~run[r].abortIssued
    /\ abortController' = [abortController EXCEPT !.aborted = TRUE]
    /\ run' = [run EXCEPT ![r].abortIssued = TRUE]
    /\ snap' = [snap EXCEPT ![r] =
                   [taken |-> TRUE,
                    started |-> [p \in Slots |-> proc[r][p].started],
                    scans |-> [p \in Slots |-> proc[r][p].scans]]]
    /\ UNCHANGED <<store, ctxProject, proc>>
    /\ UNCHANGED <<debugVars, mergeVars>>

(***************************************************************************)
(* The event stores of the model: up to MaxPartitions partitions of up to  *)
(* MaxEvents events, of which at most MaxFaulty make the script throw or   *)
(* return undefined.                                                       *)
(***************************************************************************)
RECURSIVE UpTo(_, _)
UpTo(S, k) ==
    IF k = 0 THEN {{}}
    ELSE LET smaller == UpTo(S, k - 1)
         IN  smaller \cup {T \cup {x} : T \in smaller, x \in S}

RECURSIVE TotalEvents(_)
TotalEvents(st) == IF st = <<>> THEN 0 ELSE Len(Head(st)) + TotalEvents(Tail(st))

\* The positions <<p, i>> of the events of a store.
Positions(st) ==
    {q \in (1..Len(st)) \X (1..MaxEvents) : q[2] <= Len(st[q[1]])}

Faulty(st) == {q \in Positions(st) : st[q[1]][q[2]] # "Added"}

\* The stores without faulty events.
CleanStores ==
    {st \in UNION {[1..P -> UNION {[1..n -> {"Added"}] : n \in 0..MaxEvents}]
                      : P \in 1..MaxPartitions} :
        TotalEvents(st) <= MaxTotalEvents}

\* Store st with the events at the positions of `faults` renamed.
WithFaults(st, faults) ==
    [p \in 1..Len(st) |-> [i \in 1..Len(st[p]) |->
        IF \E f \in faults : f[1] = <<p, i>>
        THEN (CHOOSE f \in faults : f[1] = <<p, i>>)[2]
        ELSE "Added"]]

Stores ==
    UNION { { WithFaults(st, faults) :
                faults \in {F \in UpTo(Positions(st) \X (EventNames \ {"Added"}), MaxFaulty) :
                               \A f, g \in F : f[1] = g[1] => f = g} }
            : st \in CleanStores }

\* The engine and the session manager after construction.
InitServer ==
    /\ ctxProject = "none"
    /\ abortController = [owner |-> 0, aborted |-> FALSE]
    /\ run = [r \in Runs |-> IdleRun]
    /\ proc = [r \in Runs |-> [p \in Slots |-> IdleProc]]
    /\ snap = [r \in Runs |-> NoSnap]
    /\ session = NoSession
    /\ stepCalls = 0
    /\ lastCall = NoCall
    /\ clock = [now |-> 0, lastSweep |-> 0]

Init ==
    /\ store \in Stores
    /\ InitServer
    /\ mergeCall = NotMerged

\* One engine, one runProjection call at a time, any number of calls.
Next ==
    \/ StartRun(1)
    \/ Compile(1)
    \/ Hello(1)
    \/ HelloFails(1)
    \/ StartPartition(1)
    \/ StartPartitionFails(1)
    \/ \E p \in Slots : ScanReturns(1, p)
    \/ \E p \in Slots : ScanFails(1, p)
    \/ \E p \in Slots : ExecReturns(1, p)
    \/ Abort(1)

Spec == Init /\ [][Next]_vars

(***************************************************************************)
(* Two runProjection calls that overlap on one engine, both in partition   *)
(* mode with the counting script, over a store without faulty events and   *)
(* without failing scans.                                                  *)
(***************************************************************************)
OverlapInput == [script |-> "count", initialState |-> Null]

StartOverlappingRun(r) ==
    /\ run[r].pc = "idle"
    /\ StartRunWith(r, OverlapInput, "parallel")

InitOverlap ==
    /\ Init
    /\ Len(store) <= MaxConcurrentPartitions
    /\ TotalEvents(store) <= DbBatchSize
    /\ Faulty(store) = {}

NextOverlap ==
    \/ \E r \in Runs : StartOverlappingRun(r)
    \/ \E r \in Runs : Compile(r)
    \/ \E r \in Runs : Hello(r)
    \/ \E r \in Runs : StartPartition(r)
    \/ \E r \in Runs, p \in Slots : ScanReturns(r, p)
    \/ \E r \in Runs, p \in Slots : ExecReturns(r, p)
    \/ \E r \in Runs : Abort(r)

SpecOverlap == InitOverlap /\ [][NextOverlap]_vars

(***************************************************************************)
(* The handler of POST /api/projections/run: it awaits runProjection and   *)
(* registers its 'close' listener after that.  run[r].closed tells whether *)
(* the client of the request has disconnected: "open", or "during" or      *)
(* "after" the runProjection call.                                         *)
(***************************************************************************)
PostRun(r) ==
    /\ run[r].pc = "idle"
    /\ \E input \in RunInputs, mode \in {"parallel", "stream"} :
         StartRunWith(r, input, mode)

\* The request emits 'close'.  The listener, once registered, calls
\* projectionEngine.abort(); before that the event has no listener.
ClientCloses(r) ==
    /\ run[r].pc # "idle"
    /\ run[r].closed = "open"
    /\ IF run[r].pc = "done"
       THEN /\ run' = [run EXCEPT ![r].closed = "after"]
            /\ abortController' = [abortController EXCEPT !.aborted = TRUE]
       ELSE /\ run' = [run EXCEPT ![r].closed = "during"]
            /\ UNCHANGED abortController
    /\ UNCHANGED <<store, ctxProject, proc, snap>>
    /\ UNCHANGED <<debugVars, mergeVars>>

InitHttp ==
    /\ Init
    /\ Len(store) <= MaxConcurrentPartitions
    /\ TotalEvents(store) <= DbBatchSize

NextHttp ==
    \/ PostRun(1)
    \/ Compile(1)
    \/ Hello(1)
    \/ StartPartition(1)
    \/ StartPartitionFails(1)
    \/ \E p \in Slots : ScanReturns(1, p)
    \/ \E p \in Slots : ExecReturns(1, p)
    \/ ClientCloses(1)

SpecHttp == InitHttp /\ [][NextHttp]_vars

(***************************************************************************)
(* Two calls of runProjection with different scripts that overlap on one   *)
(* engine, the first of them a stream run; no abort, no failure.           *)
(***************************************************************************)
SharedInput(r) ==
    IF r = 1 THEN [script |-> "count", initialState |-> Null]
    ELSE [script |-> "items", initialState |-> Null]

StartSharedRun(r) ==
    /\ run[r].pc = "idle"
    /\ \E mode \in IF r = 1 THEN {"stream"} ELSE {"stream", "parallel"} :
         StartRunWith(r, SharedInput(r), mode)

InitShared ==
    /\ Init
    /\ Len(store) <= MaxConcurrentPartitions
    /\ TotalEvents(store) <= DbBatchSize
    /\ Faulty(store) = {}

NextShared ==
    \/ \E r \in Runs : StartSharedRun(r)
    \/ \E r \in Runs : Compile(r)
    \/ \E r \in Runs : Hello(r)
    \/ \E r \in Runs : StartPartition(r)
    \/ \E r \in Runs, p \in Slots : ScanReturns(r, p)
    \/ \E r \in Runs, p \in Slots : ExecReturns(r, p)

SpecShared == InitShared /\ [][NextShared]_vars

(***************************************************************************)
(* Runs whose awaits all settle: every promise the run awaits (the script  *)
(* compilation, hello, the preparation of a partition context, a scan, a   *)
(* sandbox invocation) is resolved or rejected in the end.  The client is  *)
(* under no obligation to start a run or to abort one.                     *)
(***************************************************************************)
LiveStores ==
    {st \in Stores :
        /\ Faulty(st) = {}
        /\ \/ Len(st) = 1 /\ Len(st[1]) = DbBatchSize + 1
           \/ Len(st) = MaxPartitions /\ TotalEvents(st) <= 1}

InitLive ==
    /\ Init
    /\ store \in LiveStores

\* An await of run r settles: the continuation behind it runs.
Settle(r) ==
    \/ Compile(r)
    \/ Hello(r) \/ HelloFails(r)
    \/ StartPartition(r) \/ StartPartitionFails(r)
    \/ \E p \in Slots : ScanReturns(r, p) \/ ScanFails(r, p) \/ ExecReturns(r, p)

SpecLive == InitLive /\ [][Next]_vars /\ WF_vars(Settle(1))

(***************************************************************************)
(* Runs of a script whose state has keys that begin with an underscore.    *)
(***************************************************************************)
PrivateInput == [script |-> "private", initialState |-> Null]

StartPrivateRun(r) ==
    /\ run[r].pc \in {"idle", "done"}
    /\ \E mode \in {"parallel", "stream"} : StartRunWith(r, PrivateInput, mode)

InitPrivate ==
    /\ Init
    /\ TotalEvents(store) <= DbBatchSize
    /\ Faulty(store) = {}

NextPrivate ==
    \/ StartPrivateRun(1)
    \/ Compile(1)
    \/ Hello(1)
    \/ HelloFails(1)
    \/ StartPartition(1)
    \/ StartPartitionFails(1)
    \/ \E p \in Slots : ScanReturns(1, p)
    \/ \E p \in Slots : ScanFails(1, p)
    \/ \E p \in Slots : ExecReturns(1, p)
    \/ Abort(1)

SpecPrivate == InitPrivate /\ [][NextPrivate]_vars

(***************************************************************************)
(* DebugSessionManager.                                                    *)
(***************************************************************************)
LoadCount == 100
LoadMaxEvents == 1000
MaxPartitionsToCheck == 50

\* scanPartition({partition, start_sequence, count}).events
ScanEvents(st, partition, start, count) ==
    LET left == Len(st[partition + 1]) - start
        n == IF left < 0 THEN 0 ELSE Min(count, left)
    IN  [j \in 1..n |-> EventAt(st, partition, start + j - 1)]

\* The first loop of loadInitialEvents from `partition` on; `failed`: the
\* partitions whose scan throws.  (The second loop needs more than
\* MaxPartitionsToCheck partitions.)
RECURSIVE loadInitialEvents(_, _, _, _)
loadInitialEvents(st, partition, failed, events) ==
    IF partition >= Min(Len(st), MaxPartitionsToCheck) \/ Len(events) >= LoadMaxEvents
    THEN events
    ELSE IF partition \in failed
    THEN loadInitialEvents(st, partition + 1, failed, events)
    ELSE loadInitialEvents(st, partition + 1, failed,
             events \o ScanEvents(st, partition, 0, Min(LoadCount, LoadMaxEvents - Len(events))))

\* The execution script of a debug session and the host code around it:
\* project is called unwrapped on copies of state and event; a throw gives
\* {error: error.message, logs}, a value gives {result, logs}, as JSON text.
debugExecute(code, state, event) ==
    LET r == project(code, state, event)
        logs == "logs" :> List(ConsoleLines(code, event))
        parsed == JSONparse(JSONstringify(
                      IF r.threw THEN Map(("error" :> r.message) @@ logs)
                      ELSE Map(("result" :> r.val) @@ logs)))
    IN  [result |-> Get(parsed, "result"), error |-> Get(parsed, "error"),
         logs |-> OrElse(Get(parsed, "logs"), List(<<>>)).v]

\* The scripts and initial states a debug session is created with.
DebugInputs ==
    {input \in RunInputs : DefinesProject(input.script)}
    \cup {[script |-> "chatty", initialState |-> Null]}

NotFound == Str("Debug session not found")

\* The status of the session a call finds, "none" when there is none.
Found == IF session = NoSession THEN "none" ELSE session.status

\* The record of a call: the method, the session status it found, what it
\* returned or the message it threw, and the call before it.
Call(op, result) ==
    [op |-> op, found |-> Found, result |-> result,
     prev |-> [op |-> lastCall.op, found |-> lastCall.found]]

\* createSession(code, initialState) without streamId.
createSession ==
    /\ session = NoSession
    /\ \E input \in DebugInputs, failed \in SUBSET (0..(Len(store) - 1)) :
         /\ DefinesProject(input.script)
         /\ session' = [status |-> "idle", code |-> input.script,
                        events |-> loadInitialEvents(store, 0, failed, <<>>),
                        currentEventIndex |-> 0, totalPartitions |-> Len(store),
                        currentState |-> input.initialState,
                        previousState |-> Null,
                        initialState |-> input.initialState,
                        consoleLogs |-> <<>>,
                        error |-> Undef,
                        lastAccessed |-> clock.now,
                        pending |-> <<>>]
    /\ stepCalls' = 0
    /\ lastCall' = Call("createSession", Str("sessionId"))
    /\ UNCHANGED <<engineVars, mergeVars, clock>>

\* createSession throws "Failed to create debug session": hello failed, or
\* the script defines no project function.
createSessionFails ==
    /\ session = NoSession
    /\ lastCall' = Call("createSession", Str("Failed to create debug session"))
    /\ UNCHANGED <<engineVars, mergeVars, session, stepCalls, clock>>

\* getSessionStatus(session), the fields the model keeps.
getSessionStatus(ss) ==
    [status |-> ss.status, currentEventIndex |-> ss.currentEventIndex,
     totalEventsLoaded |-> Len(ss.events), currentState |-> ss.currentState,
     previousState |-> ss.previousState, consoleLogs |-> ss.consoleLogs,
     error |-> ss.error]

\* What stepSession makes of an existing session.
Stepped(ss, now) ==
    LET touched == [ss EXCEPT !.lastAccessed = now]
    IN  IF ss.status \in {"completed", "error"} THEN touched
        ELSE IF ss.currentEventIndex >= Len(ss.events)
        THEN [touched EXCEPT !.status = "completed"]
        ELSE LET currentEvent == ss.events[ss.currentEventIndex + 1]
                 result == debugExecute(ss.code, ss.currentState, currentEvent)
                 index == ss.currentEventIndex + 1
             IN  IF ~Falsy(result.error)
                 THEN [touched EXCEPT !.status = "error",
                                      !.previousState = ss.currentState,
                                      !.error = result.error]
                 ELSE [touched EXCEPT
                         !.previousState = ss.currentState,
                         !.currentState = result.result,
                         !.consoleLogs = @ \o result.logs,
                         !.currentEventIndex = index,
                         !.status = IF index >= Len(ss.events)
                                    THEN "completed" ELSE "paused"]

\* What stepSession returns.
StepResult(ss, after) ==
    LET ran == ss.status \notin {"completed", "error"}
               /\ ss.currentEventIndex < Len(ss.events)
    IN  [sessionStatus |-> getSessionStatus(after),
         stateChanged |-> ran /\ JSONstringify(after.previousState)
                                    # JSONstringify(after.currentState),
         processingComplete |-> after.status \in {"completed", "error"}]

stepSession ==
    IF session = NoSession
    THEN /\ lastCall' = Call("stepSession", NotFound)
         /\ UNCHANGED <<engineVars, mergeVars, session, stepCalls, clock>>
    ELSE /\ stepCalls < MaxStepCalls
         /\ stepCalls' = stepCalls + 1
         /\ session' = Stepped(session, clock.now)
         /\ lastCall' = Call("stepSession",
                              StepResult(session, Stepped(session, clock.now)))
         /\ UNCHANGED <<engineVars, mergeVars, clock>>

MutResetSessionKeepsLogs ==
    IF session = NoSession
    THEN /\ lastCall' = Call("resetSession", NotFound)
         /\ UNCHANGED <<engineVars, mergeVars, session, stepCalls, clock>>
    ELSE /\ session' = [session EXCEPT !.lastAccessed = clock.now,
                                       !.currentEventIndex = 0,
                                       !.currentState = session.initialState,
                                       !.previousState = Null,
                                       !.status = "idle",
                                       !.error = Undef]
         /\ stepCalls' = 0
         /\ lastCall' = Call("resetSession", getSessionStatus(session'))
         /\ UNCHANGED <<engineVars, mergeVars, clock>>

resetSession ==
    IF session = NoSession
    THEN /\ lastCall' = Call("resetSession", NotFound)
         /\ UNCHANGED <<engineVars, mergeVars, session, stepCalls, clock>>
    ELSE /\ session' = [session EXCEPT !.lastAccessed = clock.now,
                                       !.currentEventIndex = 0,
                                       !.currentState = session.initialState,
                                       !.previousState = Null,
                                       !.status = "idle",
                                       !.consoleLogs = <<>>,
                                       !.error = Undef]
         /\ stepCalls' = 0
         /\ lastCall' = Call("resetSession", getSessionStatus(session'))
         /\ UNCHANGED <<engineVars, mergeVars, clock>>

getSession ==
    /\ IF session = NoSession
       THEN /\ lastCall' = Call("getSession", Null)
            /\ UNCHANGED session
       ELSE /\ session' = [session EXCEPT !.lastAccessed = clock.now]
            /\ lastCall' = Call("getSession", getSessionStatus(session))
    /\ UNCHANGED <<engineVars, mergeVars, stepCalls, clock>>

MutDestroySessionThrows ==
    IF session = NoSession
    THEN /\ lastCall' = Call("destroySession", NotFound)
         /\ UNCHANGED <<engineVars, mergeVars, session, stepCalls, clock>>
    ELSE /\ session' = NoSession
         /\ stepCalls' = 0
         /\ lastCall' = Call("destroySession", Bool(TRUE))
         /\ UNCHANGED <<engineVars, mergeVars, clock>>

\* destroySession: the isolate is disposed and the session removed.
destroySession ==
    IF session = NoSession
    THEN /\ lastCall' = Call("destroySession", Bool(FALSE))
         /\ UNCHANGED <<engineVars, mergeVars, session, stepCalls, clock>>
    ELSE /\ session' = NoSession
         /\ stepCalls' = 0
         /\ lastCall' = Call("destroySession", Bool(TRUE))
         /\ UNCHANGED <<engineVars, mergeVars, clock>>

NextDebug ==
    \/ createSession
    \/ createSessionFails
    \/ stepSession
    \/ resetSession
    \/ getSession
    \/ destroySession

SpecDebug == Init /\ [][NextDebug]_vars

(***************************************************************************)
(* stepSession as the two parts that its awaits separate, for calls that   *)
(* overlap on one session.  session.pending holds, for every call whose    *)
(* sandbox invocation is awaited, the state and the event it passed to the *)
(* sandbox.  The three awaits of executeProjectionFunction (two            *)
(* global.set, one executionScript.run) are taken as one.                  *)
(***************************************************************************)
MaxInFlight == 2
\* Invocations of the script that a state a step starts from went through.
MaxApplied == 3

\* stepSession up to the await in executeProjectionFunction.
\* The states that at most n invocations of the session's script on the
\* session's events produce from its initial state.
RECURSIVE AppliedUpTo(_, _)
AppliedUpTo(s, n) ==
    IF n = 0
    THEN {s.initialState}
    ELSE LET before == AppliedUpTo(s, n - 1)
         IN  before \cup
             {debugExecute(s.code, state, s.events[i]).result :
                state \in before, i \in 1..Len(s.events)}

stepBegin ==
    /\ session # NoSession
    /\ stepCalls < MaxStepCalls
    /\ Len(session.pending) < MaxInFlight
    /\ session.currentState \in AppliedUpTo(session, MaxApplied)
    /\ stepCalls' = stepCalls + 1
    /\ LET touched == [session EXCEPT !.lastAccessed = clock.now]
       IN  IF session.status \in {"completed", "error"}
           THEN session' = touched
           ELSE IF session.currentEventIndex >= Len(session.events)
           THEN session' = [touched EXCEPT !.status = "completed"]
           ELSE session' =
                  [touched EXCEPT
                     !.status = "running",
                     !.previousState = session.currentState,
                     !.pending =
                        Append(@, [state |-> session.currentState,
                                   event |-> session.events[session.currentEventIndex + 1]])]
    /\ lastCall' = Call("stepSession", Str("pending"))
    /\ UNCHANGED <<engineVars, mergeVars, clock>>

\* The sandbox invocation of the k-th pending call returned: the rest of
\* stepSession.
stepReturns(k) ==
    /\ session # NoSession
    /\ k \in 1..Len(session.pending)
    /\ LET call == session.pending[k]
           result == debugExecute(session.code, call.state, call.event)
           index == session.currentEventIndex + 1
           rest == [j \in 1..(Len(session.pending) - 1) |->
                      session.pending[IF j < k THEN j ELSE j + 1]]
       IN  /\ session' =
                IF ~Falsy(result.error)
                THEN [session EXCEPT !.status = "error", !.error = result.error,
                                     !.pending = rest]
                ELSE [session EXCEPT
                        !.currentState = result.result,
                        !.consoleLogs = @ \o result.logs,
                        !.currentEventIndex = index,
                        !.status = IF index >= Len(session.events)
                                   THEN "completed" ELSE "paused",
                        !.pending = rest]
          /\ lastCall' = Call("stepSession", getSessionStatus(session'))
    /\ UNCHANGED <<engineVars, mergeVars, stepCalls, clock>>

InitStepOverlap ==
    /\ Init
    /\ Len(store) = 1
    /\ Len(store[1]) <= BatchSize
    /\ Faulty(store) = {}

NextStepOverlap ==
    \/ createSession
    \/ stepBegin
    \/ \E k \in 1..MaxInFlight : stepReturns(k)
    \/ resetSession

SpecStepOverlap == InitStepOverlap /\ [][NextStepOverlap]_vars

(***************************************************************************)
(* The background sweep.  Time is counted in minutes.                      *)
(***************************************************************************)
\* SESSION_TIMEOUT = 30 * 60 * 1000 ms.
SESSION_TIMEOUT == 30
\* setInterval(..., 10 * 60 * 1000).
SweepInterval == 10
\* The step of the clock, and the time after which it stops.
TickMinutes == 5
MaxTime == 60

Expired(ss, now) == ss # NoSession /\ now - ss.lastAccessed > SESSION_TIMEOUT

MutCleanupAtTimeout ==
    /\ clock.now > clock.lastSweep
    /\ clock.now % SweepInterval = 0
    /\ clock' = [clock EXCEPT !.lastSweep = clock.now]
    /\ IF session # NoSession /\ clock.now - session.lastAccessed >= SESSION_TIMEOUT
       THEN /\ session' = NoSession
            /\ stepCalls' = 0
            /\ lastCall' = Call("cleanupExpiredSessions", Num(1))
       ELSE /\ lastCall' = Call("cleanupExpiredSessions", Num(0))
            /\ UNCHANGED <<session, stepCalls>>
    /\ UNCHANGED <<engineVars, mergeVars>>

\* The setInterval callback: cleanupExpiredSessions, with the number of
\* sessions it destroyed.
cleanupExpiredSessions ==
    /\ clock.now > clock.lastSweep
    /\ clock.now % SweepInterval = 0
    /\ clock' = [clock EXCEPT !.lastSweep = clock.now]
    /\ IF Expired(session, clock.now)
       THEN /\ session' = NoSession
            /\ stepCalls' = 0
            /\ lastCall' = Call("cleanupExpiredSessions", Num(1))
       ELSE /\ lastCall' = Call("cleanupExpiredSessions", Num(0))
            /\ UNCHANGED <<session, stepCalls>>
    /\ UNCHANGED <<engineVars, mergeVars>>

\* Time passes.
Tick ==
    /\ clock.now < MaxTime
    /\ clock' = [clock EXCEPT !.now = @ + TickMinutes]
    /\ UNCHANGED <<engineVars, mergeVars, session, stepCalls, lastCall>>

InitSweep ==
    /\ Init
    /\ Len(store) = 1
    /\ Len(store[1]) <= 1

NextSweep ==
    \/ createSession
    \/ stepSession
    \/ resetSession
    \/ getSession
    \/ destroySession
    \/ cleanupExpiredSessions
    \/ Tick

SpecSweep == InitSweep /\ [][NextSweep]_vars

(***************************************************************************)
(* accumulateState called on its own, on two or three states.              *)
(***************************************************************************)
MaxMergeNumber == 2
MergeKeys == {"x", "y"}

MergeNumbers == {Num(n) : n \in 0..MaxMergeNumber}
MergeLists == {List(<<>>), List(<<Num(1)>>), List(<<Num(1), Num(2)>>)}
MergeScalars == {Null, Str(""), Str("s"), Bool(FALSE), Bool(TRUE)} \cup MergeNumbers

\* The maps over MergeKeys with values from `values`.
MapsOver(values) ==
    {Map(f) : f \in UNION {[K -> values] : K \in SUBSET MergeKeys}}

MergeMaps ==
    MapsOver({Num(0), Num(1), Str("s"), Bool(FALSE), List(<<>>), List(<<Num(1)>>),
              Map("x" :> Num(1))})

MergeValues == MergeScalars \cup MergeLists \cup MergeMaps
NumMaps == MapsOver(MergeNumbers)

InitMerge ==
    /\ store = <<<<>>>>
    /\ InitServer
    /\ \E a, b, c \in MergeValues \cup NumMaps :
         /\ \/ c = Null /\ a \in MergeValues /\ b \in MergeValues
            \/ {a, b, c} \subseteq NumMaps
         /\ mergeCall = [pc |-> "args", a |-> a, b |-> b, c |-> c]

\* accumulateState(a, b) and accumulateState(b, c).
accumulate ==
    /\ mergeCall.pc = "args"
    /\ mergeCall' = [pc |-> "merged", a |-> mergeCall.a, b |-> mergeCall.b,
                     c |-> mergeCall.c,
                     ab |-> accumulateState(mergeCall.a, mergeCall.b),
                     bc |-> accumulateState(mergeCall.b, mergeCall.c)]
    /\ UNCHANGED <<engineVars, debugVars>>

\* accumulateState(accumulateState(a, b), c) and
\* accumulateState(a, accumulateState(b, c)).
accumulateAgain ==
    /\ mergeCall.pc = "merged"
    /\ mergeCall' = [pc |-> "done", a |-> mergeCall.a, b |-> mergeCall.b,
                     c |-> mergeCall.c, ab |-> mergeCall.ab, bc |-> mergeCall.bc,
                     left |-> accumulateState(mergeCall.ab, mergeCall.c),
                     right |-> accumulateState(mergeCall.a, mergeCall.bc)]
    /\ UNCHANGED <<engineVars, debugVars>>

NextMerge == accumulate \/ accumulateAgain

SpecMerge == InitMerge /\ [][NextMerge]_vars

(***************************************************************************)
(* Properties.                                                             *)
(***************************************************************************)
LastCallback(r) == run[r].cb[Len(run[r].cb)]

IsTerminal(c) == c.status \in {"completed", "error"}

PartitionEvents(st, p) == [j \in 1..Len(st[p + 1]) |-> EventAt(st, p, j - 1)]

Prefix(events, k) == [j \in 1..k |-> events[j]]

\* The state a per-event processor reaches from `state` over `events` when
\* nothing interrupts it: the for loop of processPartition / processStream.
RECURSIVE FoldEvents(_, _, _, _)
FoldEvents(mode, fn, state, events) ==
    IF events = <<>> THEN state
    ELSE FoldEvents(mode, fn, Execute(mode, fn, state, Head(events)), Tail(events))

NoScanFailed(r) == \A p \in Slots : ~proc[r][p].fetchFailed

\* C1: every runProjection call makes exactly one terminal callback
\* ('completed' or 'error'), it is the last callback of the run, a
\* 'completed' payload has current_partition = total_partitions and an
\* 'error' payload carries a message.
C1_OneTerminalCallbackLast ==
    LET cb == run[1].cb
    IN  /\ \A i \in 1..Len(cb) :
              /\ IsTerminal(cb[i]) => (i = Len(cb) /\ run[1].pc = "done")
              /\ cb[i].status = "completed" =>
                    cb[i].current_partition = cb[i].total_partitions
              /\ cb[i].status = "error" => cb[i].error # ""
        /\ run[1].pc = "done" => (Len(cb) >= 1 /\ IsTerminal(cb[Len(cb)]))

\* An aborted partition run that had already merged a group ends with its
\* terminal callback.
C1_Witness ==
    /\ run[1].pc = "done"
    /\ run[1].abortIssued
    /\ run[1].mode = "parallel"
    /\ Len(run[1].cb) >= 2
    /\ run[1].startPartition < run[1].totalPartitions
    /\ LastCallback(1).status = "completed"

\* The state that results when a throwing event is skipped and every other
\* event is applied in order.
RECURSIVE SkipThrowing(_, _, _)
SkipThrowing(fn, state, events) ==
    IF events = <<>> THEN state
    ELSE LET r == project(fn, state, Head(events))
         IN  SkipThrowing(fn, IF r.threw THEN state ELSE r.val, Tail(events))

Returns(st, p) == \A j \in 1..Len(st[p + 1]) : st[p + 1][j] # "Noise"

\* C2: when the script throws on one event of a bulk run, the state stays as
\* it was before that event, only that event is skipped, and every other
\* event of the partition (the others of its processing batch included) is
\* applied in order: a processor that ran to the end of its partition
\* returns the state obtained by skipping exactly the throwing events.
C2_ThrowSkipsOnlyThatEvent ==
    \A p \in Slots :
        LET pr == proc[1][p]
        IN  (/\ pr.pc = "done"
             /\ ~run[1].abortIssued
             /\ ~pr.fetchFailed
             /\ Returns(store, p))
            => pr.state = SkipThrowing(run[1].fn, pr.seed, PartitionEvents(store, p))

\* Some event of partition p was never handed to the sandbox.
WorkLeft(r) ==
    \E p \in 0..(Len(store) - 1) :
        p \in Slots /\ proc[r][p].started < Len(store[p + 1])

\* C3: when abort() is called while runProjection is still processing, the
\* run stops scheduling new work, the state accumulated so far is reported
\* last, and the status stays 'running': an aborted run (one that abort()
\* stopped before all events were handed to the sandbox) never makes a
\* callback with status 'completed'.
C3_AbortedNeverCompleted ==
    (/\ run[1].abortIssued
     /\ run[1].mode # "stream"
     /\ NoScanFailed(1)
     /\ WorkLeft(1))
    => \A i \in 1..Len(run[1].cb) : run[1].cb[i].status # "completed"

\* C4: if abort() is observed while a partition or a stream is processed one
\* event at a time, no event is handed to the sandbox and no scan is issued
\* after the call of abort(), and the state the processor returns is the
\* fold of the script over exactly the events handed to the sandbox until
\* then, a prefix of the partition.
C4_AbortReturnsPrefixFold ==
    \A p \in Slots :
        LET pr == proc[1][p]
        IN  (run[1].mode \in {"stream", "sequential"} /\ snap[1].taken)
            => /\ pr.started = snap[1].started[p]
               /\ pr.scans = snap[1].scans[p]
               /\ pr.pc = "done" =>
                    pr.state = FoldEvents(run[1].mode, run[1].fn, pr.seed,
                                          Prefix(PartitionEvents(store, p), pr.started))

\* A per-event processor that abort() stopped inside a fetched batch, after
\* at least one event and before the last one of the batch.
C4_Witness ==
    \E p \in Slots :
        LET pr == proc[1][p]
        IN  /\ run[1].mode \in {"stream", "sequential"}
            /\ snap[1].taken
            /\ pr.pc = "done"
            /\ pr.started > 0
            /\ pr.i < pr.n
            /\ pr.state # pr.seed

\* C5: each run has its own abort signal: when two runProjection calls
\* overlap on one engine, abort() issued for one of them stops only that
\* run; the other one, for which abort() was never issued, hands every
\* event of every partition to the sandbox before it ends.
C5_AbortStopsOnlyItsRun ==
    \A r \in Runs :
        (run[r].pc = "done" /\ ~run[r].abortIssued /\ LastCallback(r).status = "completed")
        => run[r].eventsProcessed = TotalEvents(store)

\* C6: a script that defines no project function makes the run call back
\* exactly once, with status 'error' and events_processed 0, scan nothing
\* and hand no event to the sandbox.
C6_NoProjectOneErrorCallback ==
    run[1].script = "noproject"
    => /\ Len(run[1].cb) <= 1
       /\ run[1].pc = "done" => Len(run[1].cb) = 1
       /\ \A i \in 1..Len(run[1].cb) :
              run[1].cb[i].status = "error" /\ run[1].cb[i].events_processed = 0
       /\ \A p \in Slots : proc[1][p].scans = 0 /\ proc[1][p].started = 0

\* The merge of the processors' results p..end-1 into state, in order.
RECURSIVE MergeAll(_, _, _, _)
MergeAll(state, procs, p, end) ==
    IF p >= end THEN state
    ELSE MergeAll(accumulateState(state, procs[p].state), procs, p + 1, end)

RECURSIVE SumProcessed(_, _, _)
SumProcessed(procs, p, end) ==
    IF p >= end THEN 0 ELSE procs[p].eventsProcessed + SumProcessed(procs, p + 1, end)

CountState(n) == IF n = 0 THEN Null ELSE Map("count" :> Num(n))

\* A partition run that was not aborted and ended 'completed': every
\* partition was processed, to its end unless its scan failed; what each
\* processor had accumulated is merged into the final state.
C7_Completed ==
    (/\ run[1].mode = "parallel"
     /\ run[1].pc = "done"
     /\ ~run[1].abortIssued
     /\ LastCallback(1).status = "completed")
    => /\ \A p \in 0..(Len(store) - 1) :
              /\ proc[1][p].pc = "done"
              /\ ~proc[1][p].fetchFailed => proc[1][p].eventsProcessed = Len(store[p + 1])
              /\ (run[1].script = "count" /\ Faulty(store) = {})
                    => proc[1][p].state = CountState(proc[1][p].eventsProcessed)
       /\ run[1].currentState = MergeAll(run[1].initialState, proc[1], 0, Len(store))
       /\ run[1].eventsProcessed = SumProcessed(proc[1], 0, Len(store))

\* The step in which a scan fails makes no 'error' callback.
C7_FailureStep ==
    (\E p \in Slots : proc'[1][p].fetchFailed /\ ~proc[1][p].fetchFailed)
    => \A i \in 1..Len(run'[1].cb) :
           i > Len(run[1].cb) => run'[1].cb[i].status # "error"

\* C7: if a scan of partition p fails, processing of p stops, the state
\* accumulated for p is kept and merged into the global state, every other
\* partition (of the same group and of later groups) is still processed,
\* and the failure does not make the run end with status 'error'.
C7_ScanFailureKeepsState == [][C7_FailureStep /\ C7_Completed']_vars

\* The second scan of partition 0 failed after events of it were applied,
\* and a partition of a later group was processed to its end.
C7_Witness ==
    /\ run[1].mode = "parallel"
    /\ run[1].pc = "done"
    /\ ~run[1].abortIssued
    /\ LastCallback(1).status = "completed"
    /\ Len(store) > MaxConcurrentPartitions
    /\ proc[1][0].fetchFailed
    /\ proc[1][0].eventsProcessed > 0
    /\ \E q \in MaxConcurrentPartitions..(Len(store) - 1) :
          ~proc[1][q].fetchFailed /\ proc[1][q].eventsProcessed > 0
    /\ LastCallback(1).current_state # Null

\* C8: for any script, initial state and events of one partition, the
\* parallel orchestrator with one group of one partition
\* (processPartitionOptimized seeded with null, then accumulateState of the
\* initial state and its result) ends with the state that processPartition
\* seeded with the initial state returns.
C8_OnePartitionSameAsSequential ==
    (/\ run[1].mode = "parallel"
     /\ run[1].pc = "done"
     /\ Len(store) = 1
     /\ ~run[1].abortIssued
     /\ NoScanFailed(1)
     /\ LastCallback(1).status = "completed")
    => run[1].currentState =
          FoldEvents("parallel", run[1].fn, run[1].initialState, PartitionEvents(store, 0))

\* C9: for any script, initial state and N loaded events, N stepSession
\* calls leave the session with the currentState that the single-partition
\* processor returns for the same N events in bulk.
C9_StepsSameAsBulk ==
    (session # NoSession /\ stepCalls = Len(session.events))
    => session.currentState =
          FoldEvents("parallel", session.code, session.initialState, session.events)

\* C10: the counting script with a null initial state over at least one
\* event, in a partition run without fault, fetch error or abort: the run
\* ends 'completed', events_processed is the number of events, and
\* current_state.count equals events_processed.
C10_CountingScriptCountsAll ==
    (/\ run[1].script = "count"
     /\ run[1].initialState = Null
     /\ run[1].mode \in {"parallel", "sequential"}
     /\ run[1].pc = "done"
     /\ ~run[1].abortIssued
     /\ NoScanFailed(1)
     /\ LastCallback(1).error \notin {HelloMessage, ContextMessage}
     /\ Faulty(store) = {}
     /\ TotalEvents(store) >= 1)
    => /\ LastCallback(1).status = "completed"
       /\ LastCallback(1).events_processed = TotalEvents(store)
       /\ LastCallback(1).current_state =
             Map("count" :> Num(LastCallback(1).events_processed))

\* Several partitions in two groups, five events in all.
C10_Witness ==
    /\ run[1].script = "count"
    /\ run[1].mode = "parallel"
    /\ run[1].pc = "done"
    /\ ~run[1].abortIssued
    /\ NoScanFailed(1)
    /\ Faulty(store) = {}
    /\ Len(store) > MaxConcurrentPartitions
    /\ \A p \in 0..(Len(store) - 1) : Len(store[p + 1]) >= 1
    /\ LastCallback(1).status = "completed"
    /\ LastCallback(1).events_processed = MaxTotalEvents
    /\ LastCallback(1).current_state = Map("count" :> Num(MaxTotalEvents))

\* The items of a state of the script "items".
ItemsOf(state) == OrElse(Get(state, "items"), List(<<>>)).v

\* The items of the processors of partitions p..end-1, in partition order.
RECURSIVE ItemsInPartitionOrder(_, _, _)
ItemsInPartitionOrder(procs, p, end) ==
    IF p >= end THEN <<>>
    ELSE ItemsOf(procs[p].state) \o ItemsInPartitionOrder(procs, p + 1, end)

\* C11: in a parallel run the partition results are merged in ascending
\* partition order, in whatever order the partitions of a group finished:
\* with states {items: list} the final items are the lists of the partitions
\* concatenated in partition order, the earlier groups' items first.
C11_MergedInPartitionOrder ==
    (/\ run[1].mode = "parallel"
     /\ run[1].script = "items"
     /\ run[1].pc = "done"
     /\ LastCallback(1).status = "completed")
    => /\ ItemsOf(run[1].currentState)
            = ItemsInPartitionOrder(proc[1], 0,
                                    Min(run[1].startPartition, run[1].totalPartitions))
       /\ LastCallback(1).current_state = run[1].currentState

\* Two partitions of one group, each with items, the higher one finished
\* first.
C11_Witness ==
    /\ run[1].mode = "parallel"
    /\ run[1].script = "items"
    /\ run[1].pc = "done"
    /\ LastCallback(1).status = "completed"
    /\ store = <<<<"Added", "Added">>, <<"Added">>>>
    /\ run[1].settled = <<1, 0>>
    /\ ItemsOf(proc[1][0].state) = <<Num(EventAt(store, 0, 0).event_id),
                                     Num(EventAt(store, 0, 1).event_id)>>
    /\ ItemsOf(proc[1][1].state) = <<Num(EventAt(store, 1, 0).event_id)>>
    /\ ItemsOf(run[1].currentState)
         = ItemsOf(proc[1][0].state) \o ItemsOf(proc[1][1].state)

(***************************************************************************)
(* Properties of accumulateState (SpecMerge).                              *)
(***************************************************************************)
Merged == mergeCall.pc \in {"merged", "done"}

\* C12: for every pair of numbers a and b the merge is their sum a + b, as
\* whole partition states and as the values of one key of two maps.
C12_NumbersAreSummed ==
    Merged =>
      /\ mergeCall.a.t = "num" /\ mergeCall.b.t = "num"
           => mergeCall.ab = Num(mergeCall.a.v + mergeCall.b.v)
      /\ mergeCall.a.t = "map" /\ mergeCall.b.t = "map"
           => \A key \in DOMAIN mergeCall.a.v \cap DOMAIN mergeCall.b.v :
                mergeCall.a.v[key].t = "num" /\ mergeCall.b.v[key].t = "num"
                  => mergeCall.ab.v[key]
                       = Num(mergeCall.a.v[key].v + mergeCall.b.v[key].v)

\* C13: for every state S, merging null with S and merging S with null both
\* give S.
C13_NullIsIdentity ==
    Merged =>
      /\ mergeCall.a = Null => mergeCall.ab = mergeCall.b
      /\ mergeCall.b = Null => mergeCall.ab = mergeCall.a

\* C14: under a key present in both maps, when one value is a list and the
\* other is neither a list nor null, the merged value is the later map's one.
C14_LatestWinsUnderKey ==
    Merged /\ mergeCall.a.t = "map" /\ mergeCall.b.t = "map" =>
      \A key \in DOMAIN mergeCall.a.v \cap DOMAIN mergeCall.b.v :
        LET baseValue == mergeCall.a.v[key]
            value == mergeCall.b.v[key]
        IN  /\ Null \notin {baseValue, value}
            /\ (baseValue.t = "list") # (value.t = "list")
            => mergeCall.ab.v[key] = value

C14_Witness ==
    /\ Merged
    /\ mergeCall.a = Map(("x" :> List(<<Num(1)>>)) @@ ("y" :> Str("s")))
    /\ mergeCall.b = Map(("x" :> Str("s")) @@ ("y" :> List(<<Num(1)>>)))
    /\ mergeCall.ab = mergeCall.b

\* C15: for maps a, b and c whose values are numbers, over any key sets,
\* merge(merge(a, b), c) equals merge(a, merge(b, c)).
C15_NumberMapsAssociative ==
    mergeCall.pc = "done" /\ {mergeCall.a, mergeCall.b, mergeCall.c} \subseteq NumMaps
      => mergeCall.left = mergeCall.right

C15_Witness ==
    /\ mergeCall.pc = "done"
    /\ mergeCall.a = Map("x" :> Num(1))
    /\ mergeCall.b = Map(<<>>)
    /\ mergeCall.c = Map(("x" :> Num(2)) @@ ("y" :> Num(1)))
    /\ mergeCall.left = Map(("x" :> Num(3)) @@ ("y" :> Num(1)))
    /\ mergeCall.right = mergeCall.left

(***************************************************************************)
(* Properties of the debug session manager (SpecDebug, SpecSweep).         *)
(***************************************************************************)
\* A stepSession call on a session that is neither completed nor in error
\* and has events left.
StepRuns ==
    /\ session # NoSession
    /\ stepCalls' = stepCalls + 1
    /\ session.status \notin {"completed", "error"}
    /\ session.currentEventIndex < Len(session.events)

\* What the script does on the event at currentEventIndex.
StepOutcome ==
    project(session.code, session.currentState,
            session.events[session.currentEventIndex + 1])

\* C16: stepSession on a session neither completed nor in error, with events
\* left, runs the script on exactly the event at currentEventIndex.  When the
\* script returns, currentEventIndex grows by one, the lines the step logged
\* are appended to consoleLogs and the status is 'completed' at the last
\* event, else 'paused'.  When the script throws, the status is 'error', the
\* message is recorded and currentState and currentEventIndex are kept.
C16_StepRunsCurrentEvent ==
    [][StepRuns =>
         IF StepOutcome.threw
         THEN /\ session'.status = "error"
              /\ session'.error # Undef
              /\ session'.currentState = session.currentState
              /\ session'.currentEventIndex = session.currentEventIndex
         ELSE /\ session'.currentEventIndex = session.currentEventIndex + 1
              /\ session'.currentState
                   = Get(JSONparse(JSONstringify(Map("result" :> StepOutcome.val))),
                         "result")
              /\ session'.consoleLogs
                   = session.consoleLogs
                       \o ConsoleLines(session.code,
                                       session.events[session.currentEventIndex + 1])
              /\ session'.status
                   = IF session'.currentEventIndex >= Len(session.events)
                     THEN "completed" ELSE "paused"
              /\ session'.error = Undef]_vars

\* C17: whatever stepSession calls came before, resetSession leaves the
\* session with currentState equal to initialState, currentEventIndex 0,
\* previousState null, no console logs, no error and status 'idle'; the
\* loaded events and the compiled script are the ones it had.
C17_ResetRestoresStart ==
    [][(session # NoSession /\ lastCall'.op = "resetSession") =>
         /\ session' # NoSession
         /\ session'.currentState = session.initialState
         /\ session'.initialState = session.initialState
         /\ session'.currentEventIndex = 0
         /\ session'.previousState = Null
         /\ session'.consoleLogs = <<>>
         /\ session'.error = Undef
         /\ session'.status = "idle"
         /\ session'.events = session.events
         /\ session'.code = session.code]_vars

\* A session that was stepped through all its events, logging on each, and
\* then reset.
C17_Witness ==
    /\ lastCall.op = "resetSession"
    /\ lastCall.found = "completed"
    /\ session # NoSession
    /\ session.code = "chatty"
    /\ Len(session.events) = MaxTotalEvents
    /\ session.status = "idle"
    /\ session.currentEventIndex = 0
    /\ session.consoleLogs = <<>>
    /\ session.currentState = Null

\* A call on a session id that is not in the map.
Missing(op) == session = NoSession /\ lastCall'.op = op /\ lastCall' # lastCall

\* C18: destroySession on an existing session releases it, removes it and
\* returns true; on a session that is gone it releases nothing, raises no
\* error, returns false and leaves the map as it is.  On a session that is
\* gone stepSession and resetSession fail with 'Debug session not found' and
\* getSession returns null.
C18_DestroyIdempotent ==
    [][/\ (session # NoSession /\ lastCall'.op = "destroySession")
            => session' = NoSession /\ lastCall'.result = Bool(TRUE)
       /\ Missing("destroySession")
            => session' = NoSession /\ lastCall'.result = Bool(FALSE)
       /\ Missing("stepSession")
            => session' = NoSession /\ lastCall'.result = NotFound
       /\ Missing("resetSession")
            => session' = NoSession /\ lastCall'.result = NotFound
       /\ Missing("getSession")
            => session' = NoSession /\ lastCall'.result = Null]_vars

\* destroySession called twice in a row on a session that had been stepped.
C18_Witness ==
    /\ lastCall.prev.op = "destroySession"
    /\ lastCall.prev.found = "paused"
    /\ lastCall.op = "destroySession"
    /\ lastCall.found = "none"
    /\ lastCall.result = Bool(FALSE)
    /\ session = NoSession

\* C19: a sweep destroys exactly the sessions whose lastAccessed is more
\* than 30 minutes before the sweep.  createSession, stepSession,
\* resetSession and getSession set lastAccessed to the time of the call, so
\* a session used within the last 30 minutes survives every sweep, and a
\* session left alone is destroyed by the first sweep that finds it idle for
\* more than 30 minutes; nothing but a sweep or destroySession removes it.
C19_SweepDestroysIdleOnly ==
    [][/\ (session # NoSession /\ clock'.lastSweep # clock.lastSweep)
            => /\ (session' = NoSession)
                    <=> (clock.now - session.lastAccessed > SESSION_TIMEOUT)
               /\ session' # NoSession => session' = session
       /\ (clock' = clock /\ session' # NoSession)
            => session'.lastAccessed = clock.now
       /\ (session # NoSession /\ session' = NoSession)
            => \/ lastCall'.op = "destroySession"
               \/ /\ lastCall'.op = "cleanupExpiredSessions"
                  /\ clock.now - session.lastAccessed > SESSION_TIMEOUT]_vars

\* The sweep of minute 40 destroys a stepped session that the sweep before
\* it had found and spared.
C19_Witness ==
    /\ lastCall.op = "cleanupExpiredSessions"
    /\ lastCall.found = "completed"
    /\ lastCall.result = Num(1)
    /\ lastCall.prev = [op |-> "cleanupExpiredSessions", found |-> "completed"]
    /\ session = NoSession
    /\ clock = [now |-> 40, lastSweep |-> 40]

(***************************************************************************)
(* Properties of the payloads sent to the client (SpecPrivate).            *)
(***************************************************************************)
\* No map of value x, at any depth, has a key that begins with '_'.
RECURSIVE NoPrivateKeys(_)
NoPrivateKeys(x) ==
    CASE x.t = "list" -> \A i \in 1..Len(x.v) : NoPrivateKeys(x.v[i])
      [] x.t = "map" -> \A key \in DOMAIN x.v :
                           ~StartsWithUnderscore(key) /\ NoPrivateKeys(x.v[key])
      [] OTHER -> TRUE

\* Value `sent` has every key of `state` that does not begin with '_', at
\* every depth, with the value `state` has for it, and nothing else.
RECURSIVE SameVisible(_, _)
SameVisible(state, sent) ==
    CASE state.t = "list" ->
           /\ sent.t = "list"
           /\ Len(sent.v) = Len(state.v)
           /\ \A i \in 1..Len(state.v) : SameVisible(state.v[i], sent.v[i])
      [] state.t = "map" ->
           /\ sent.t = "map"
           /\ DOMAIN sent.v = {key \in DOMAIN state.v : ~StartsWithUnderscore(key)}
           /\ \A key \in DOMAIN sent.v : SameVisible(state.v[key], sent.v[key])
      [] OTHER -> sent = state

\* C20: every progress payload of the parallel engine, 'running',
\* 'completed' or 'error', carries a current_state with no key beginning
\* with '_' at any depth, maps inside lists included, and with every other
\* key and value as in the engine's accumulated state.
C20_PayloadsHidePrivateKeys ==
    /\ \A i \in 1..Len(run[1].cb) : NoPrivateKeys(run[1].cb[i].current_state)
    /\ (run[1].mode = "parallel" /\ Len(run[1].cb) > 0)
         => SameVisible(run[1].currentState, LastCallback(1).current_state)

\* A completed run over two groups: the accumulated state has private keys
\* at the top, in a nested map and in the maps of a list; the payload has
\* the two rows and the count without them.
C20_Witness ==
    /\ run[1].mode = "parallel"
    /\ run[1].pc = "done"
    /\ Len(store) > MaxConcurrentPartitions
    /\ LastCallback(1).status = "completed"
    /\ Get(run[1].currentState, "count") = Num(2)
    /\ Len(Get(run[1].currentState, "_seen").v) = 2
    /\ Len(Get(run[1].currentState, "rows").v) = 2
    /\ \A i \in 1..2 : "_tmp" \in DOMAIN Get(run[1].currentState, "rows").v[i].v
    /\ "_tmp" \in DOMAIN Get(run[1].currentState, "meta").v
    /\ DOMAIN LastCallback(1).current_state.v = {"count", "rows", "meta"}
    /\ \A i \in 1..2 : DOMAIN Get(LastCallback(1).current_state, "rows").v[i].v = {"id"}
    /\ DOMAIN Get(LastCallback(1).current_state, "meta").v = {"last"}

(***************************************************************************)
(* Further properties of accumulateState (SpecMerge).                      *)
(***************************************************************************)
\* C25: the values under a key present in both maps are combined by the
\* rules of whole states: merge({k: a}, {k: b}).k equals merge(a, b) for
\* every key k and values a and b, also when exactly one of them is a list.
C25_KeysMergeLikeStates ==
    (Merged /\ mergeCall.a.t = "map" /\ mergeCall.b.t = "map") =>
      \A key \in DOMAIN mergeCall.a.v \cap DOMAIN mergeCall.b.v :
        mergeCall.ab.v[key] = accumulateState(mergeCall.a.v[key], mergeCall.b.v[key])

(***************************************************************************)
(* Further properties of the partition run (Spec).                         *)
(***************************************************************************)
\* The partitions whose processor is awaiting a scan or a sandbox call.
InFlight(r) == {p \in Slots : proc[r][p].pc \in {"scanning", "executing"}}

\* The group partition p belongs to.
GroupOf(p) == p \div MaxConcurrentPartitions

\* C27: partitions are processed in consecutive groups of at most
\* maxConcurrentPartitions: at most that many processors are in flight at
\* any moment, partitions are started in ascending order, and no partition
\* of a later group is started before every partition of the groups before
\* it has finished.
C27_GroupsOneAtATime ==
    run[1].mode = "parallel" =>
      /\ Cardinality(InFlight(1)) <= MaxConcurrentPartitions
      /\ \A p, q \in Slots :
           (p < q /\ proc[1][q].pc # "idle") => proc[1][p].pc # "idle"
      /\ \A p, q \in Slots :
           (GroupOf(p) < GroupOf(q) /\ proc[1][q].pc # "idle")
             => proc[1][p].pc = "done"

\* The processor of the second group is in flight after the two processors
\* of the first group, which had events, have finished.
C27_Witness ==
    /\ run[1].mode = "parallel"
    /\ Len(store) > MaxConcurrentPartitions
    /\ run[1].startPartition = MaxConcurrentPartitions
    /\ InFlight(1) = {MaxConcurrentPartitions}
    /\ \A p \in 0..(MaxConcurrentPartitions - 1) :
         proc[1][p].pc = "done" /\ proc[1][p].eventsProcessed > 0

\* C28: in a parallel run every partition processor starts from a null
\* state and a step changes the state of one processor at most; the
\* accumulated state of the run changes only in a step that ends with every
\* processor of the current group finished, and in no step that leaves a
\* processor in flight.
C28_Step ==
    (run[1].mode = "parallel" /\ run'[1].pc # "compiling") =>
      /\ \A p, q \in Slots :
           (p # q /\ proc'[1][p].state # proc[1][p].state)
             => proc'[1][q].state = proc[1][q].state
      /\ run'[1].currentState # run[1].currentState
           => /\ run[1].pc \in {"starting", "joining"}
              /\ \A p \in Group(run[1]) : proc'[1][p].pc = "done"
              /\ InFlight(1)' = {}

C28_ProcessorsKeepToThemselves ==
    [][/\ C28_Step
       /\ run'[1].mode = "parallel"
            => \A p \in Slots : proc'[1][p].pc # "idle" => proc'[1][p].seed = Null]_vars

\* The processor of the second group has applied an event to a state that
\* started null, while the accumulated state holds the merged first group.
C28_Witness ==
    /\ run[1].mode = "parallel"
    /\ run[1].script = "count"
    /\ run[1].startPartition = MaxConcurrentPartitions
    /\ run[1].currentState = Map("count" :> Num(2))
    /\ proc[1][MaxConcurrentPartitions].seed = Null
    /\ proc[1][MaxConcurrentPartitions].state = Map("count" :> Num(1))
    /\ MaxConcurrentPartitions \in InFlight(1)

\* A step in which the processor of partition p hands events to the script:
\* they are the events that follow the ones handed before, in sequence
\* order, one event or one processing batch of them.
C26_HandsNext(p) ==
    (proc'[1][p].started # proc[1][p].started /\ run'[1].pc # "compiling")
    => /\ proc'[1][p].pc = "executing"
       /\ proc'[1][p].lo + proc'[1][p].i = proc[1][p].started
       /\ proc'[1][p].started
            = proc[1][p].started
                + (IF Optimized(run[1]) THEN BatchLen(proc'[1][p]) ELSE 1)
       /\ proc'[1][p].started <= Len(store[p + 1])

\* A step in which the processor of partition p issues a scan: from the
\* sequence after the last event received.
C26_ScansNext(p) ==
    (proc'[1][p].scans # proc[1][p].scans /\ run'[1].pc # "compiling")
    => proc'[1][p].startSequence = proc[1][p].lo + proc[1][p].n

\* The processor of partition p ended without fetch error or abort: every
\* event of the partition was handed to the script.
C26_AllHanded(p) ==
    (/\ p < Len(store)
     /\ proc[1][p].pc = "done"
     /\ ~proc[1][p].fetchFailed
     /\ ~run[1].abortIssued)
    => /\ proc[1][p].started = Len(store[p + 1])
       /\ ~proc[1][p].hasMore \/ proc[1][p].n = 0

\* C26: a partition or stream processed without fetch error or abort hands
\* each of its events to the script exactly once, in ascending sequence
\* order: each scan starts after the last event received, and scanning
\* stops when a batch is empty or has_more is false.
C26_EachEventOnceInOrder ==
    /\ [][\A p \in Slots : C26_HandsNext(p) /\ C26_ScansNext(p)]_vars
    /\ [](\A p \in Slots : C26_AllHanded(p))

\* A partition of MaxEvents events, read in two scans and handed whole.
C26_Witness ==
    /\ Len(store[1]) = MaxEvents
    /\ proc[1][0].pc = "done"
    /\ ~proc[1][0].fetchFailed
    /\ ~run[1].abortIssued
    /\ proc[1][0].scans = 2
    /\ proc[1][0].started = MaxEvents
    /\ proc[1][0].lo = DbBatchSize

\* The number of events of run r handed to the sandbox so far.
RECURSIVE HandedFrom(_, _)
HandedFrom(procs, p) ==
    IF p \notin Slots THEN 0 ELSE procs[p].started + HandedFrom(procs, p + 1)

Handed(r) == HandedFrom(proc[r], 0)

\* C24: in every progress callback of a run events_processed is the number
\* of events of the run handed to the sandbox so far, and it never decreases
\* from one callback to the next, also when the run is aborted in the middle
\* of a fetched batch.
C24_EventsProcessedIsHanded ==
    [][run'[1].pc # "compiling" =>
         \A i \in 1..Len(run'[1].cb) :
           i > Len(run[1].cb) =>
             /\ run'[1].cb[i].events_processed = Handed(1)'
             /\ i > 1 => run'[1].cb[i].events_processed
                           >= run'[1].cb[i - 1].events_processed]_vars

\* The sandbox contexts that exist while run r runs or after it: the cached
\* context of the engine and the contexts the run created and did not
\* release.
LiveContexts(r) == (IF run[r].pc = "idle" THEN 0 ELSE 1) + run[r].contexts

\* C30: the number of sandbox contexts created and not yet released never
\* exceeds the concurrency limit plus the one shared context: the contexts
\* of a partition group are released before the next group starts, and none
\* outlives the run.
C30_ContextsBounded ==
    /\ LiveContexts(1) <= MaxConcurrentPartitions + 1
    /\ run[1].pc = "starting" /\ run[1].partition = run[1].startPartition
         => run[1].contexts = 0
    /\ run[1].pc = "done" => run[1].contexts = 0

(***************************************************************************)
(* Properties of overlapping runs with different scripts (SpecShared).     *)
(***************************************************************************)
\* What a run of `script` from `state` in `mode` produces when it is the
\* only run of the engine: the events of the stream, or of every partition
\* with the partition results merged in order.
RECURSIVE AloneFrom(_, _, _)
AloneFrom(script, state, p) ==
    IF p >= Len(store) THEN state
    ELSE AloneFrom(script,
                   accumulateState(state,
                       FoldEvents("parallel", script, Null, PartitionEvents(store, p))),
                   p + 1)

Alone(script, state, mode) ==
    IF mode = "stream"
    THEN FoldEvents("stream", script, state, PartitionEvents(store, 0))
    ELSE AloneFrom(script, state, 0)

\* C23: when two runProjection calls overlap on one engine, the final state
\* of each is the one the run produces when executed alone: neither the
\* script nor a state or event value of one run is used in a sandbox
\* invocation of the other.
C23_OverlappingRunsIsolated ==
    \A r \in Runs :
      (run[r].pc = "done" /\ LastCallback(r).status = "completed")
      => run[r].currentState
           = Alone(run[r].script, run[r].initialState, run[r].mode)

(***************************************************************************)
(* Properties of the run request (SpecHttp).                               *)
(***************************************************************************)
\* C29: if the client of POST /api/projections/run disconnects while its
\* run is in progress, abort() is invoked for the run before the run emits
\* its terminal callback, so that the run stops scheduling new events.
C29_DisconnectAborts ==
    run[1].closed = "during" => abortController.aborted

(***************************************************************************)
(* Properties of overlapping calls on a debug session (SpecStepOverlap).   *)
(***************************************************************************)
\* The script applied to `events` in order, one stepSession at a time.
RECURSIVE DebugFold(_, _, _)
DebugFold(code, state, events) ==
    IF events = <<>> THEN state
    ELSE DebugFold(code, debugExecute(code, state, Head(events)).result, Tail(events))

\* C22: under any interleaving of overlapping stepSession and resetSession
\* calls on one session, whenever no call is in flight currentState is the
\* script applied to events[0 .. currentEventIndex) in order from
\* initialState (no event applied twice or skipped), and currentEventIndex
\* never exceeds the number of loaded events.
C22_OverlappingStepsInOrder ==
    session # NoSession =>
      /\ session.currentEventIndex <= Len(session.events)
      /\ (session.pending = <<>>
            /\ session.currentEventIndex <= Len(session.events))
           => session.currentState
                = DebugFold(session.code, session.initialState,
                            Prefix(session.events, session.currentEventIndex))

\* C21: when every await of a run settles, a runProjection call that is in
\* progress reaches its end with a terminal callback as its last one, also
\* when scans fail and when abort() is called during the run.
C21_RunsTerminate ==
    (run[1].pc \notin {"idle", "done"})
      ~> (run[1].pc = "done" /\ run[1].cb # <<>> /\ IsTerminal(LastCallback(1)))

\* A run over more than one group that was aborted and in which a scan
\* failed has ended with a terminal callback.
C21_Witness ==
    /\ run[1].pc = "done"
    /\ run[1].mode = "parallel"
    /\ run[1].totalPartitions > MaxConcurrentPartitions
    /\ run[1].abortIssued
    /\ \E p \in Slots : proc[1][p].fetchFailed
    /\ run[1].cb # <<>>
    /\ IsTerminal(LastCallback(1))

=============================================================================
